---- MODULE Spec2Model ----
(***************************************************************************)
(* Truck-factor analysis of src/code-as-crimescene/cohesion/               *)
(* git_metrics_analyzser.py: normalize_author_email, get_line_authorship,  *)
(* calculate_truck_factor and main.                                        *)
(*                                                                         *)
(* A Python str is a sequence of one-character strings.  A Python dict     *)
(* (dict, defaultdict, Counter) is a sequence of <<key, value>> pairs in   *)
(* insertion order, because max() and sorted() read that order.            *)
(***************************************************************************)
EXTENDS Integers, Sequences, FiniteSets, TLC

VARIABLES
    pc,                             \* position in the running function
    caller,                         \* "direct" | "main" | "normalize"
    email_str,                      \* normalize_author_email: the argument
    normalized_once,                \* normalize_author_email(email_str)
    normalized_twice,               \* normalize_author_email of that result
    relevant_files,                 \* calculate_truck_factor: argument
    blame,                          \* per file, the author_email_raw of each blame line
    orphan_threshold_percentage,    \* argument, a rational [num, den]
    file_authorship_map,
    file_primary_owners,
    author_owned_files_initial,
    num_total_files_with_owners,
    active_author_owned_files,
    covered_files,
    orphaned_files_count,
    current_truck_factor,
    truck_factor_developer_details,
    returned,                       \* the value calculate_truck_factor returned, or NotReturned
    raised,                         \* the exception that left the function, or "none"
    args,                           \* main: the parsed command line
    temp_dir,                       \* main: "none" | "exists" | "removed"
    exit_code                       \* main: -1 while running, 0 returned, 1 exit(1)

vars == <<pc, caller, email_str, normalized_once, normalized_twice,
          relevant_files, blame, orphan_threshold_percentage,
          file_authorship_map, file_primary_owners, author_owned_files_initial,
          num_total_files_with_owners, active_author_owned_files, covered_files,
          orphaned_files_count, current_truck_factor,
          truck_factor_developer_details, returned, raised,
          args, temp_dir, exit_code>>

normVars == <<email_str, normalized_once, normalized_twice>>

coreInputs == <<relevant_files, blame, orphan_threshold_percentage>>

coreVars == <<file_authorship_map, file_primary_owners, author_owned_files_initial,
              num_total_files_with_owners, active_author_owned_files, covered_files,
              orphaned_files_count, current_truck_factor,
              truck_factor_developer_details, returned, raised>>

mainVars == <<args, temp_dir, exit_code>>

(***************************************************************************)
(* Bounds of the model.                                                    *)
(***************************************************************************)
\* normalize_author_email: longest text put in front of the domain part
MaxLocalLen == 4
\* calculate_truck_factor: blame lines over all relevant files together
MaxTotalLines == 3
\* main: blame lines over all relevant files together
MaxMainLines == 2

(***************************************************************************)
(* Python str operations.                                                  *)
(***************************************************************************)
Max(S) == CHOOSE x \in S : \A y \in S : y <= x

Min(S) == CHOOSE x \in S : \A y \in S : x <= y

\* Python None, where a str is expected: no sequence of characters equals it
NoneValue == <<"None">>

WhitespaceChars == {" ", "\t"}

DigitChars == {"0", "1", "2", "3", "4", "5", "6", "7", "8", "9"}

\* str.lower() on one character (the upper-case letters the inputs use)
LowerChar(c) ==
    CASE c = "U" -> "u"
      [] c = "A" -> "a"
      [] c = "G" -> "g"
      [] OTHER -> c

Lower(s) == [i \in 1..Len(s) |-> LowerChar(s[i])]

RECURSIVE LStrip(_)
LStrip(s) ==
    IF s = <<>> THEN s
    ELSE IF Head(s) \in WhitespaceChars THEN LStrip(Tail(s)) ELSE s

RECURSIVE RStrip(_)
RStrip(s) ==
    IF s = <<>> THEN s
    ELSE IF s[Len(s)] \in WhitespaceChars THEN RStrip(SubSeq(s, 1, Len(s) - 1)) ELSE s

\* str.strip()
Strip(s) == RStrip(LStrip(s))

\* pat in s
Contains(s, pat) ==
    \E i \in 0..(Len(s) - Len(pat)) : SubSeq(s, i + 1, i + Len(pat)) = pat

\* position of the first c in s, 0 when there is none
FirstIndex(s, c) ==
    IF \E i \in 1..Len(s) : s[i] = c
    THEN Min({i \in 1..Len(s) : s[i] = c})
    ELSE 0

\* s.split(c, 1)
SplitFirst(s, c) ==
    LET i == FirstIndex(s, c) IN
    IF i = 0 THEN <<s>>
    ELSE <<SubSeq(s, 1, i - 1), SubSeq(s, i + 1, Len(s))>>

\* s.isdigit()
IsDigit(s) == s # <<>> /\ \A i \in 1..Len(s) : s[i] \in DigitChars

\* s.replace(c, '')
RemoveChar(s, c) == SelectSeq(s, LAMBDA x : x # c)

(***************************************************************************)
(* The string literals of normalize_author_email.                          *)
(***************************************************************************)
UnknownEmail ==
    <<"u","n","k","n","o","w","n","@","e","x","a","m","p","l","e",".","c","o","m">>

NoreplyGithub ==
    <<"@","u","s","e","r","s",".","n","o","r","e","p","l","y",".",
      "g","i","t","h","u","b",".","c","o","m">>

GmailCom == <<"g","m","a","i","l",".","c","o","m">>

GooglemailCom == <<"g","o","o","g","l","e","m","a","i","l",".","c","o","m">>

OutlookCom == <<"o","u","t","l","o","o","k",".","c","o","m">>

HotmailCom == <<"h","o","t","m","a","i","l",".","c","o","m">>

LiveCom == <<"l","i","v","e",".","c","o","m">>

(***************************************************************************)
(* normalize_author_email                                                  *)
(***************************************************************************)
\* lines 81-88: the github no-reply branch, email already lower-cased and stripped
NormalizeNoreply(email) ==
    LET parts == SplitFirst(email, "+") IN
    IF Len(parts) > 1 /\ IsDigit(parts[1]) THEN parts[2] ELSE email

\* lines 90-98: the provider branches, email already lower-cased and stripped
NormalizeProvider(email) ==
    IF Contains(email, <<"@">>)
    THEN LET sp == SplitFirst(email, "@")
             local_part == sp[1]
             domain == sp[2]
         IN  IF Contains(domain, GmailCom) \/ Contains(domain, GooglemailCom)
             THEN RemoveChar(SplitFirst(local_part, "+")[1], ".") \o <<"@">> \o domain
             ELSE IF Contains(domain, OutlookCom) \/ Contains(domain, HotmailCom)
                     \/ Contains(domain, LiveCom)
             THEN SplitFirst(local_part, "+")[1] \o <<"@">> \o domain
             ELSE email
    ELSE email

normalize_author_email(s) ==
    IF s = NoneValue \/ s = <<>> THEN UnknownEmail
    ELSE LET email == Strip(Lower(s)) IN
         IF Contains(email, NoreplyGithub) THEN NormalizeNoreply(email)
         ELSE NormalizeProvider(email)

(***************************************************************************)
(* Python dict operations on insertion-ordered <<key, value>> sequences.   *)
(***************************************************************************)
DictKeys(d) == {d[i][1] : i \in DOMAIN d}

DictIndex(d, k) == CHOOSE i \in DOMAIN d : d[i][1] = k

\* d.get(k, default)
DictGet(d, k, default) ==
    IF k \in DictKeys(d) THEN d[DictIndex(d, k)][2] ELSE default

\* d[k] = v: a new key goes last, an existing key keeps its place
DictSet(d, k, v) ==
    IF k \in DictKeys(d) THEN [d EXCEPT ![DictIndex(d, k)] = <<k, v>>]
    ELSE Append(d, <<k, v>>)

\* del d[k]
DictDel(d, k) == SelectSeq(d, LAMBDA e : e[1] # k)

RECURSIVE SumOver(_, _, _)
SumOver(S, fam, author) ==
    IF S = {} THEN 0
    ELSE LET f == CHOOSE x \in S : TRUE IN
         DictGet(DictGet(fam, f, <<>>), author, 0) + SumOver(S \ {f}, fam, author)

(***************************************************************************)
(* get_line_authorship.  The argument is the blame output of one file as   *)
(* the author_email_raw of each of its lines (lines 166-177 extract it).   *)
(* The function returns None for no output or an empty Counter; None is    *)
(* modelled as the empty Counter <<>>, which the caller's "if authorship"  *)
(* treats alike.                                                           *)
(***************************************************************************)
\* lines 179-182 without the test for the unknown sentinel
MutCountLineKeepsUnknown(authorship, author_email_raw) ==
    IF author_email_raw = <<>> \/ author_email_raw = NoneValue THEN authorship
    ELSE LET author_email_normalized == normalize_author_email(author_email_raw) IN
         DictSet(authorship, author_email_normalized,
                 DictGet(authorship, author_email_normalized, 0) + 1)

\* lines 179-182 with the test for the unknown sentinel made on the raw address
MutCountLineTestsRaw(authorship, author_email_raw) ==
    IF author_email_raw = <<>> \/ author_email_raw = NoneValue THEN authorship
    ELSE LET author_email_normalized == normalize_author_email(author_email_raw) IN
         IF author_email_normalized # <<>> /\ author_email_raw # UnknownEmail
         THEN DictSet(authorship, author_email_normalized,
                      DictGet(authorship, author_email_normalized, 0) + 1)
         ELSE authorship

\* lines 179-182: count one blame line
CountLine(authorship, author_email_raw) ==
    IF author_email_raw = <<>> \/ author_email_raw = NoneValue THEN authorship
    ELSE LET author_email_normalized == normalize_author_email(author_email_raw) IN
         IF author_email_normalized # <<>> /\ author_email_normalized # UnknownEmail
         THEN DictSet(authorship, author_email_normalized,
                      DictGet(authorship, author_email_normalized, 0) + 1)
         ELSE authorship

RECURSIVE CountLines(_, _)
CountLines(authorship, blame_output) ==
    IF blame_output = <<>> THEN authorship
    ELSE CountLines(CountLine(authorship, Head(blame_output)), Tail(blame_output))

\* lines 179-184 counting the lines without a contributor under the sentinel
MutGetLineAuthorshipCountsUnknown(blame_output) ==
    LET unknown == Cardinality({j \in DOMAIN blame_output :
                       normalize_author_email(blame_output[j]) = UnknownEmail})
        authorship == CountLines(<<>>, blame_output)
    IN  IF unknown > 0 THEN Append(authorship, <<UnknownEmail, unknown>>)
        ELSE authorship

get_line_authorship(blame_output) ==
    IF blame_output = <<>> THEN <<>> ELSE CountLines(<<>>, blame_output)

(***************************************************************************)
(* calculate_truck_factor, lines 192-233: the tables built before the loop *)
(***************************************************************************)
\* lines 192-199
RECURSIVE BuildAuthorshipMap(_, _, _)
BuildAuthorshipMap(map, files, bl) ==
    IF files = <<>> THEN map
    ELSE LET f_path == Head(files)
             authorship == get_line_authorship(bl[f_path])
         IN  BuildAuthorshipMap(
                 IF authorship # <<>> THEN DictSet(map, f_path, authorship) ELSE map,
                 Tail(files), bl)

\* line 213 with min for max
MutPrimaryOwnerLeast(authors_in_file) ==
    LET least == Min({authors_in_file[i][2] : i \in DOMAIN authors_in_file})
        first == Min({i \in DOMAIN authors_in_file : authors_in_file[i][2] = least})
    IN  authors_in_file[first][1]

\* line 213: max(authors_in_file, key=authors_in_file.get), the first maximum
\* in the Counter's insertion order
PrimaryOwner(authors_in_file) ==
    LET best == Max({authors_in_file[i][2] : i \in DOMAIN authors_in_file})
        first == Min({i \in DOMAIN authors_in_file : authors_in_file[i][2] = best})
    IN  authors_in_file[first][1]

\* lines 210-216 (all_involved_authors is only printed)
RECURSIVE AssignOwners(_, _)
AssignOwners(acc, fam) ==
    IF fam = <<>> THEN acc
    ELSE LET f_path == Head(fam)[1]
             authors_in_file == Head(fam)[2]
         IN  IF authors_in_file = <<>> THEN AssignOwners(acc, Tail(fam))
             ELSE LET primary_owner == PrimaryOwner(authors_in_file) IN
                  AssignOwners(
                      [owners |-> DictSet(acc.owners, f_path, primary_owner),
                       owned |-> DictSet(acc.owned, primary_owner,
                                    DictGet(acc.owned, primary_owner, {}) \cup {f_path})],
                      Tail(fam))

\* line 218: if not file_primary_owners
NoPrimaryOwners(owners) == owners = <<>>

\* lines 230-232
InitialActive(owned) == SelectSeq(owned, LAMBDA e : e[2] # {})

(***************************************************************************)
(* calculate_truck_factor, lines 235-278: the degradation loop.  A loop    *)
(* state is [active, covered, orphaned, tf, details].                      *)
(***************************************************************************)
\* the loop condition with the comparison turned around: orphaned / n > threshold
MutBelowThresholdInverted(orphaned, n, t) == orphaned * t.den > t.num * n

\* the loop condition reading the threshold as the share of files still
\* covered: covered / n > threshold
MutBelowThresholdCoverage(orphaned, n, t) == (n - orphaned) * t.den > t.num * n

\* line 235 with <= for <
MutBelowThresholdInclusive(orphaned, n, t) == orphaned * t.den <= t.num * n

\* line 235: (orphaned_files_count / num_total_files_with_owners) < threshold,
\* for n > 0 and a threshold num/den with den > 0.  The thresholds used are
\* multiples of 1/4, which a float holds exactly, and the quotient of two
\* small integers is rounded to the nearest float, so the float comparison
\* and the comparison of the fractions agree.
BelowThreshold(orphaned, n, t) == orphaned * t.den < t.num * n

\* line 236 with the second not left out: not active or covered_files
MutCoverageExhaustedNegated(active, covered) == active = <<>> \/ covered # {}

\* line 236
CoverageExhausted(active, covered) == active = <<>> \/ covered = {}

\* line 243: the sort key
CurrentCoverage(entry, covered) == Cardinality(entry[2] \cap covered)

\* the sort without reverse=True: the first entry with the smallest key
MutSelectIndexAscending(active, covered) ==
    LET least == Min({CurrentCoverage(active[i], covered) : i \in DOMAIN active})
    IN  Min({i \in DOMAIN active : CurrentCoverage(active[i], covered) = least})

\* element 0 of the items without the sort of lines 241-245
MutSelectIndexUnsorted(active, covered) == 1

\* lines 241-250: sorted(..., reverse=True)[0]; the sort is stable, so of the
\* entries with the largest key the first in the dict's order comes first
SelectIndex(active, covered) ==
    LET best == Max({CurrentCoverage(active[i], covered) : i \in DOMAIN active})
    IN  Min({i \in DOMAIN active : CurrentCoverage(active[i], covered) = best})

\* lines 257-259 with the loop over every file of file_authorship_map
MutLocImpactedAllFiles(impacted, fam, author_to_remove) ==
    SumOver(DictKeys(fam), fam, author_to_remove)

\* lines 257-259
LocImpacted(impacted, fam, author_to_remove) == SumOver(impacted, fam, author_to_remove)

\* lines 271-274 left out: no file leaves covered_files
MutOrphanedNone(impacted, covered) == {}

\* lines 271-274: the files that leave covered_files
Orphaned(impacted, covered) == impacted \cap covered

\* line 274 written with = for +=
MutCountOrphanedAssigns(orphaned, gone) == Cardinality(gone)

\* line 274 moved out of the for loop: one per removal
MutCountOrphanedOnce(orphaned, gone) == orphaned + 1

\* line 274, once per file that left covered_files
CountOrphaned(orphaned, gone) == orphaned + Cardinality(gone)

\* line 276 left out
MutRemoveAuthorKeeps(active, author_to_remove) == active

\* line 276
RemoveAuthor(active, author_to_remove) == DictDel(active, author_to_remove)

\* lines 230-232 written as active_author_owned_files = author_owned_files_initial:
\* the two names are one dict and the del of line 276 removes the author's key
MutInitialAfterDelAliased(initial, author_to_remove) == DictDel(initial, author_to_remove)

\* line 276 seen from author_owned_files_initial: lines 230-232 build
\* active_author_owned_files as a new dict of new sets, so the del leaves
\* author_owned_files_initial as it is
InitialAfterDel(initial, author_to_remove) == initial

\* line 261 counting the orphaned files instead of the removed author
MutCountRemovalFiles(tf, num_files_impacted_this_round) ==
    tf + num_files_impacted_this_round

\* line 261
CountRemoval(tf, num_files_impacted_this_round) == tf + 1

\* lines 236-237, 247-248, 254-255: whether this iteration breaks out of the loop
Breaks(sim) ==
    \/ CoverageExhausted(sim.active, sim.covered)
    \/ sim.active = <<>>
    \/ CurrentCoverage(sim.active[SelectIndex(sim.active, sim.covered)], sim.covered) = 0

\* lines 271-276 indented one level less, so that they follow the loop: an
\* iteration counts and reports the removal and updates nothing else
MutRemovalUpdatesAfterLoop(sim, fam) ==
    LET selected == sim.active[SelectIndex(sim.active, sim.covered)]
        author_to_remove == selected[1]
        files_impacted_by_this_removal == selected[2] \cap sim.covered
    IN  [active |-> sim.active,
         covered |-> sim.covered,
         orphaned |-> sim.orphaned,
         tf |-> CountRemoval(sim.tf, Cardinality(files_impacted_by_this_removal)),
         details |-> Append(sim.details,
                        [email |-> author_to_remove,
                         files_impacted |-> Cardinality(files_impacted_by_this_removal),
                         loc_impacted |-> LocImpacted(files_impacted_by_this_removal,
                                                      fam, author_to_remove)])]

\* lines 250-276: an iteration that does not break
Removal(sim, fam) ==
    LET selected == sim.active[SelectIndex(sim.active, sim.covered)]
        author_to_remove == selected[1]
        files_impacted_by_this_removal == selected[2] \cap sim.covered
        gone == Orphaned(files_impacted_by_this_removal, sim.covered)
    IN  [active |-> RemoveAuthor(sim.active, author_to_remove),
         covered |-> sim.covered \ gone,
         orphaned |-> CountOrphaned(sim.orphaned, gone),
         tf |-> CountRemoval(sim.tf, Cardinality(files_impacted_by_this_removal)),
         details |-> Append(sim.details,
                        [email |-> author_to_remove,
                         files_impacted |-> Cardinality(files_impacted_by_this_removal),
                         loc_impacted |-> LocImpacted(files_impacted_by_this_removal,
                                                      fam, author_to_remove)])]

\* lines 226-233
InitialSim(owners, owned) ==
    [active |-> InitialActive(owned), covered |-> DictKeys(owners),
     orphaned |-> 0, tf |-> 0, details |-> <<>>]

\* the loop run to its end; n > 0
RECURSIVE RunLoop(_, _, _, _)
RunLoop(sim, fam, n, t) ==
    IF ~BelowThreshold(sim.orphaned, n, t) THEN sim
    ELSE IF Breaks(sim) THEN sim
    ELSE RunLoop(Removal(sim, fam), fam, n, t)

\* the value of return: (current_truck_factor, truck_factor_developer_details)
ReturnValue(tf, details) == [truck_factor |-> tf, details |-> details]

\* calculate_truck_factor as a function of its inputs
TruckFactorOf(files, bl, t) ==
    IF files = <<>> THEN ReturnValue(0, <<>>)
    ELSE LET fam == BuildAuthorshipMap(<<>>, files, bl) IN
         IF fam = <<>> THEN ReturnValue(0, <<>>)
         ELSE LET tables == AssignOwners([owners |-> <<>>, owned |-> <<>>], fam) IN
              IF NoPrimaryOwners(tables.owners) THEN ReturnValue(0, <<>>)
              ELSE LET last == RunLoop(InitialSim(tables.owners, tables.owned), fam,
                                       Len(tables.owners), t)
                   IN  ReturnValue(last.tf, last.details)

(***************************************************************************)
(* Inputs.                                                                 *)
(***************************************************************************)
\* file paths: opaque dict keys to the code
AllFiles == <<"f1", "f2", "f3">>

Range(q) == {q[i] : i \in DOMAIN q}

Prefixes(q) == {SubSeq(q, 1, k) : k \in 0..Len(q)}

Orderings(q) ==
    {p \in [DOMAIN q -> Range(q)] : \A i, j \in DOMAIN q : i # j => p[i] # p[j]}

\* raw author addresses of blame lines: three contributors (one written in
\* upper case) and an address that normalizes to the unknown sentinel
RawA == <<"A", "@", "x">>

RawB == <<"b", "@", "x">>

RawC == <<"c", "@", "x">>

\* "Unknown@example.com"
RawUnknown == <<"U">> \o Tail(UnknownEmail)

RawAddrs == {RawA, RawB, RawC, RawUnknown}

\* what normalize_author_email returns for each author address of the inputs
NormalizedRaw == [author_email_raw \in RawAddrs |-> normalize_author_email(author_email_raw)]

AuthorA == <<"a", "@", "x">>

AuthorB == RawB

AuthorC == RawC

SeqsUpTo(S, n) == UNION {[1..k -> S] : k \in 0..n}

\* every assignment of blame lines to the files of a list, at most budget
\* lines in all
RECURSIVE BlamesOf(_, _)
BlamesOf(files, budget) ==
    IF files = <<>> THEN {<<>>}
    ELSE UNION {{(Head(files) :> lines) @@ rest :
                    rest \in BlamesOf(Tail(files), budget - Len(lines))} :
                lines \in SeqsUpTo(RawAddrs, budget)}

Repeat(x, n) == [i \in 1..n |-> x]

\* the spec's scenario: f1 = {A:10, B:2}, f2 = {A:5}, f3 = {B:8, C:1}
ScenarioBlame ==
    ("f1" :> Repeat(RawA, 10) \o Repeat(RawB, 2)) @@
    ("f2" :> Repeat(RawA, 5)) @@
    ("f3" :> Repeat(RawB, 8) \o Repeat(RawC, 1))

Rational(n, d) == [num |-> n, den |-> d]

Half == Rational(1, 2)

One == Rational(1, 1)

\* thresholds inside (0, 1]
ValidThresholds == {Rational(1, 4), Half, Rational(3, 4), One}

\* thresholds main refuses: zero, negative, above one
InvalidThresholds == {Rational(0, 1), Rational(-1, 4), Rational(5, 4)}

Thresholds == ValidThresholds \cup InvalidThresholds

\* the least and the greatest threshold inside (0, 1] and the nearest outside
EndThresholds == {Rational(-1, 4), Rational(1, 4), One, Rational(5, 4)}

\* t1 <= t2
RatLeq(t1, t2) == t1.num * t2.den <= t2.num * t1.den

\* texts for normalize_author_email: a short text followed by a domain part
LocalChars == {"1", "+", "u", ".", " ", "U"}

\* "@users.noreply.gitlab.com": the no-reply form at another host
NoreplyGitlab ==
    <<"@","u","s","e","r","s",".","n","o","r","e","p","l","y",".",
      "g","i","t","l","a","b",".","c","o","m">>

\* the endings of the texts: none, the no-reply forms (at github.com, at
\* github.com with further domain text, at another host), the providers'
\* domains (one written with a capital), a domain that only contains a
\* provider's name, and a domain of no provider
DomainParts ==
    {<<>>,
     NoreplyGithub,
     NoreplyGithub \o <<".", "x">>,
     NoreplyGitlab,
     <<"@">> \o GmailCom,
     <<"@", "G">> \o Tail(GmailCom),
     <<"@">> \o GooglemailCom,
     <<"@", "x">> \o GmailCom,
     <<"@">> \o OutlookCom,
     <<"@">> \o HotmailCom,
     <<"@">> \o LiveCom,
     <<"@", "x", ".", "o", "r", "g">>}

NormInputs ==
    {local \o dom : local \in SeqsUpTo(LocalChars, MaxLocalLen), dom \in DomainParts}
    \cup {NoneValue}

NotReturned == [truck_factor |-> -1, details |-> <<>>]

NoArgs == [keep_repo |-> FALSE, clone_depth |-> 0, branch |-> FALSE]

(***************************************************************************)
(* Initial states.                                                         *)
(***************************************************************************)
InitCoreVars ==
    /\ file_authorship_map = <<>>
    /\ file_primary_owners = <<>>
    /\ author_owned_files_initial = <<>>
    /\ num_total_files_with_owners = 0
    /\ active_author_owned_files = <<>>
    /\ covered_files = {}
    /\ orphaned_files_count = 0
    /\ current_truck_factor = 0
    /\ truck_factor_developer_details = <<>>
    /\ returned = NotReturned
    /\ raised = "none"

InitNormVars ==
    /\ email_str = <<>>
    /\ normalized_once = <<>>
    /\ normalized_twice = <<>>

InitMainVars ==
    /\ args = NoArgs
    /\ temp_dir = "none"
    /\ exit_code = -1

\* the inputs of a call: files in listing order with their blame lines
InputsUpTo(budget) ==
    \/ /\ relevant_files \in Prefixes(AllFiles)
       /\ blame \in BlamesOf(relevant_files, budget)
    \/ /\ relevant_files \in Orderings(AllFiles)
       /\ blame = ScenarioBlame

\* calculate_truck_factor called with any list, blame and threshold
Init ==
    /\ pc = "ctf_start"
    /\ caller = "direct"
    /\ InputsUpTo(MaxTotalLines)
    /\ orphan_threshold_percentage \in Thresholds
    /\ InitCoreVars
    /\ InitNormVars
    /\ InitMainVars

\* the same call with the thresholds at the ends of the ranges
InitFair ==
    /\ Init
    /\ orphan_threshold_percentage \in EndThresholds

\* normalize_author_email called with any text
InitNorm ==
    /\ pc = "norm_start"
    /\ caller = "normalize"
    /\ email_str \in NormInputs
    /\ normalized_once = <<>>
    /\ normalized_twice = <<>>
    /\ relevant_files = <<>>
    /\ blame = <<>>
    /\ orphan_threshold_percentage = Half
    /\ InitCoreVars
    /\ InitMainVars

\* the script started with any command line on any repository
InitMain ==
    /\ pc = "main_start"
    /\ caller = "main"
    /\ InputsUpTo(MaxMainLines)
    /\ orphan_threshold_percentage \in Thresholds
    /\ args \in [keep_repo : BOOLEAN, clone_depth : {0, 1}, branch : BOOLEAN]
    /\ temp_dir = "none"
    /\ exit_code = -1
    /\ InitCoreVars
    /\ InitNormVars

(***************************************************************************)
(* normalize_author_email applied, and applied again to its result.        *)
(***************************************************************************)
NormalizeFirst ==
    /\ pc = "norm_start"
    /\ normalized_once' = normalize_author_email(email_str)
    /\ pc' = "norm_once"
    /\ UNCHANGED <<caller, email_str, normalized_twice, coreInputs, coreVars, mainVars>>

NormalizeSecond ==
    /\ pc = "norm_once"
    /\ normalized_twice' = normalize_author_email(normalized_once)
    /\ pc' = "norm_done"
    /\ UNCHANGED <<caller, email_str, normalized_once, coreInputs, coreVars, mainVars>>

(***************************************************************************)
(* calculate_truck_factor                                                  *)
(***************************************************************************)
\* where control goes when calculate_truck_factor returns
AfterReturn == IF caller = "main" THEN "main_report" ELSE "done"

\* where control goes when an exception leaves calculate_truck_factor
AfterRaise == IF caller = "main" THEN "main_finally" ELSE "raised"

\* what git can do when a command is run: succeed, fail, or be missing
GitOutcomes == IF caller = "main" THEN {"ok", "error", "not_found"} ELSE {"ok"}

\* run_git_command, lines 37-64: whether the call ends in exit(1)
GitExits(outcome, check_sysexit_on_error) ==
    \/ outcome = "not_found"
    \/ outcome = "error" /\ check_sysexit_on_error

Return(tf, details) ==
    /\ returned' = ReturnValue(tf, details)
    /\ pc' = AfterReturn

\* lines 186-204
CollectAuthorship ==
    /\ pc = "ctf_start"
    /\ IF relevant_files = <<>>
       THEN /\ Return(0, <<>>)
            /\ UNCHANGED <<file_authorship_map, raised, exit_code>>
       ELSE \E git \in GitOutcomes \ {"error"} :
            IF GitExits(git, FALSE)
            THEN /\ raised' = "SystemExit"
                 /\ exit_code' = 1
                 /\ pc' = AfterRaise
                 /\ UNCHANGED <<file_authorship_map, returned>>
            ELSE LET fam == BuildAuthorshipMap(<<>>, relevant_files, blame) IN
                 /\ file_authorship_map' = fam
                 /\ IF fam = <<>>
                    THEN Return(0, <<>>)
                    ELSE pc' = "ctf_assign" /\ UNCHANGED returned
                 /\ UNCHANGED <<raised, exit_code>>
    /\ UNCHANGED <<caller, normVars, coreInputs, file_primary_owners,
                   author_owned_files_initial, num_total_files_with_owners,
                   active_author_owned_files, covered_files, orphaned_files_count,
                   current_truck_factor, truck_factor_developer_details,
                   args, temp_dir>>

\* lines 206-233
AssignPrimaryOwners ==
    /\ pc = "ctf_assign"
    /\ LET tables == AssignOwners([owners |-> <<>>, owned |-> <<>>], file_authorship_map)
           sim == InitialSim(tables.owners, tables.owned)
       IN  /\ file_primary_owners' = tables.owners
           /\ author_owned_files_initial' = tables.owned
           /\ IF NoPrimaryOwners(tables.owners)
              THEN /\ Return(0, <<>>)
                   /\ UNCHANGED <<num_total_files_with_owners, active_author_owned_files,
                                  covered_files>>
              ELSE /\ num_total_files_with_owners' = Len(tables.owners)
                   /\ active_author_owned_files' = sim.active
                   /\ covered_files' = sim.covered
                   /\ pc' = "ctf_loop"
                   /\ UNCHANGED returned
    /\ UNCHANGED <<caller, normVars, coreInputs, file_authorship_map,
                   orphaned_files_count, current_truck_factor,
                   truck_factor_developer_details, raised, mainVars>>

SimState ==
    [active |-> active_author_owned_files, covered |-> covered_files,
     orphaned |-> orphaned_files_count, tf |-> current_truck_factor,
     details |-> truck_factor_developer_details]

\* lines 235-280: one test of the loop condition and, when it holds, one
\* iteration; the division raises when the divisor is zero
LoopIteration ==
    /\ pc = "ctf_loop"
    /\ IF num_total_files_with_owners = 0
       THEN /\ raised' = "ZeroDivisionError"
            /\ pc' = AfterRaise
            /\ UNCHANGED <<active_author_owned_files, covered_files,
                           orphaned_files_count, current_truck_factor,
                           truck_factor_developer_details, returned,
                           author_owned_files_initial>>
       ELSE IF \/ ~BelowThreshold(orphaned_files_count, num_total_files_with_owners,
                                  orphan_threshold_percentage)
               \/ Breaks(SimState)
       THEN /\ Return(current_truck_factor, truck_factor_developer_details)
            /\ UNCHANGED <<active_author_owned_files, covered_files,
                           orphaned_files_count, current_truck_factor,
                           truck_factor_developer_details, raised,
                           author_owned_files_initial>>
       ELSE \E next \in {Removal(SimState, file_authorship_map)} :
            /\ active_author_owned_files' = next.active
            /\ author_owned_files_initial'
                  = InitialAfterDel(author_owned_files_initial,
                                    next.details[Len(next.details)].email)
            /\ covered_files' = next.covered
            /\ orphaned_files_count' = next.orphaned
            /\ current_truck_factor' = next.tf
            /\ truck_factor_developer_details' = next.details
            /\ pc' = "ctf_loop"
            /\ UNCHANGED <<returned, raised>>
    /\ UNCHANGED <<caller, normVars, coreInputs, file_authorship_map,
                   file_primary_owners, num_total_files_with_owners, mainVars>>

(***************************************************************************)
(* main                                                                    *)
(***************************************************************************)
\* line 368 with <= for the first <
MutThresholdAcceptedZero(t) == 0 <= t.num /\ t.num <= t.den

\* line 368: 0.0 < threshold <= 1.0
ThresholdAccepted(t) == 0 < t.num /\ t.num <= t.den

\* the script ended with os._exit(1): the process stops at once and the finally
\* clause is not run
MutExitInTrySkipsFinally ==
    /\ raised' = "SystemExit"
    /\ exit_code' = 1
    /\ pc' = "exited"

\* a git command of main failed in a way that ends the script: SystemExit
\* passes through the finally clause when the try block was entered
ExitInTry ==
    /\ raised' = "SystemExit"
    /\ exit_code' = 1
    /\ pc' = "main_finally"

\* lines 366-370
MainValidate ==
    /\ pc = "main_start"
    /\ IF ThresholdAccepted(orphan_threshold_percentage)
       THEN pc' = "main_mkdtemp" /\ UNCHANGED <<exit_code, raised>>
       ELSE pc' = "exited" /\ exit_code' = 1 /\ raised' = "SystemExit"
    /\ UNCHANGED <<caller, normVars, coreInputs, file_authorship_map,
                   file_primary_owners, author_owned_files_initial,
                   num_total_files_with_owners, active_author_owned_files,
                   covered_files, orphaned_files_count, current_truck_factor,
                   truck_factor_developer_details, returned, args, temp_dir>>

mainFrame ==
    <<caller, normVars, coreInputs, file_authorship_map, file_primary_owners,
      author_owned_files_initial, num_total_files_with_owners,
      active_author_owned_files, covered_files, orphaned_files_count,
      current_truck_factor, truck_factor_developer_details, returned, args>>

\* lines 372-378
MainMkdtemp ==
    /\ pc = "main_mkdtemp"
    /\ temp_dir' = "exists"
    /\ pc' = "main_clone"
    /\ UNCHANGED <<mainFrame, raised, exit_code>>

\* lines 380-400: git clone, then for a shallow clone two fetches
MainClone ==
    /\ pc = "main_clone"
    /\ \E clone \in GitOutcomes, fetch \in GitOutcomes :
          IF \/ GitExits(clone, TRUE)
             \/ args.clone_depth > 0 /\ GitExits(fetch, FALSE)
          THEN ExitInTry
          ELSE pc' = "main_branch" /\ UNCHANGED <<raised, exit_code>>
    /\ UNCHANGED <<mainFrame, temp_dir>>

\* lines 402-406: git rev-parse and, on another branch, git checkout
MainBranch ==
    /\ pc = "main_branch"
    /\ \E revparse \in GitOutcomes, checkout \in GitOutcomes, on_branch \in BOOLEAN :
          IF args.branch /\ (\/ GitExits(revparse, TRUE)
                             \/ ~on_branch /\ GitExits(checkout, FALSE))
          THEN ExitInTry
          ELSE pc' = "main_files" /\ UNCHANGED <<raised, exit_code>>
    /\ UNCHANGED <<mainFrame, temp_dir>>

\* lines 408-416: get_relevant_files, the early return, the friction report
MainRelevantFiles ==
    /\ pc = "main_files"
    /\ \E lsfiles \in GitOutcomes, log \in GitOutcomes :
          IF GitExits(lsfiles, TRUE)
          THEN ExitInTry
          ELSE IF relevant_files = <<>>
          THEN pc' = "main_finally" /\ exit_code' = 0 /\ UNCHANGED raised
          ELSE IF GitExits(log, FALSE)
          THEN ExitInTry
          ELSE pc' = "ctf_start" /\ UNCHANGED <<raised, exit_code>>
    /\ UNCHANGED <<mainFrame, temp_dir>>

\* lines 419-422: display_truck_factor and write_truck_factor_csv
MainReport ==
    /\ pc = "main_report"
    /\ pc' = "main_finally"
    /\ exit_code' = 0
    /\ UNCHANGED <<mainFrame, temp_dir, raised>>

\* lines 424-429
MainFinally ==
    /\ pc = "main_finally"
    /\ temp_dir' = IF args.keep_repo THEN temp_dir ELSE "removed"
    /\ pc' = "exited"
    /\ UNCHANGED <<mainFrame, raised, exit_code>>

(***************************************************************************)
(* Specifications.                                                         *)
(***************************************************************************)
Next == CollectAuthorship \/ AssignPrimaryOwners \/ LoopIteration

Spec == Init /\ [][Next]_vars

\* the interpreter does not stop inside the loop: an iteration that can be
\* taken is eventually taken
FairSpec == InitFair /\ [][Next]_vars /\ WF_vars(LoopIteration)

NextNorm == NormalizeFirst \/ NormalizeSecond

SpecNorm == InitNorm /\ [][NextNorm]_vars

NextMain ==
    \/ MainValidate
    \/ MainMkdtemp
    \/ MainClone
    \/ MainBranch
    \/ MainRelevantFiles
    \/ CollectAuthorship
    \/ AssignPrimaryOwners
    \/ LoopIteration
    \/ MainReport
    \/ MainFinally

SpecMain == InitMain /\ [][NextMain]_vars

(***************************************************************************)
(* Properties.                                                             *)
(***************************************************************************)
Done == pc = "done"

Event(author, files, loc) ==
    [email |-> author, files_impacted |-> files, loc_impacted |-> loc]

IsScenario == Len(relevant_files) = 3 /\ blame = ScenarioBlame

\* the authors that are the primary owner of some file
OwningAuthors == {file_primary_owners[i][2] : i \in DOMAIN file_primary_owners}

\* min(number of owning authors, N)
RemovalBound ==
    IF Cardinality(OwningAuthors) <= Len(file_primary_owners)
    THEN Cardinality(OwningAuthors) ELSE Len(file_primary_owners)

\* C1: on the spec's data f1={A:10,B:2}, f2={A:5}, f3={B:8,C:1}, whatever the
\* order the files are listed in, threshold 0.5 returns truck factor 1 with
\* the events [{A,2,15}] and threshold 1.0 returns truck factor 2 with the
\* events [{A,2,15},{B,1,8}].
C1_ConcreteScenario ==
    (Done /\ IsScenario) =>
        /\ orphan_threshold_percentage = Half =>
              returned = ReturnValue(1, <<Event(AuthorA, 2, 15)>>)
        /\ orphan_threshold_percentage = One =>
              returned = ReturnValue(2, <<Event(AuthorA, 2, 15), Event(AuthorB, 1, 8)>>)

C1_ScenarioReturned ==
    /\ Done /\ IsScenario
    /\ relevant_files = <<"f3", "f1", "f2">>
    /\ orphan_threshold_percentage = One
    /\ returned.truck_factor = 2

\* C2: whatever the blame lines and the threshold, the returned truck factor
\* is at most min(number of authors that primarily own a file, N), and so is
\* the count of removals at every moment before the return.
C2_TruckFactorBound ==
    /\ current_truck_factor <= RemovalBound
    /\ Done => returned.truck_factor <= RemovalBound

C2_BoundAttained ==
    /\ Done
    /\ returned.truck_factor = 2
    /\ RemovalBound = 2
    /\ Len(file_primary_owners) = 3

\* C3: for the same files and blame lines, a threshold t2 of (0,1] that is at
\* least the threshold t1 of (0,1] the call was made with gives a truck
\* factor that is at least the one returned.
C3_ThresholdMonotone ==
    (Done /\ orphan_threshold_percentage \in ValidThresholds) =>
        \A t2 \in ValidThresholds :
            RatLeq(orphan_threshold_percentage, t2) =>
                returned.truck_factor
                    <= TruckFactorOf(relevant_files, blame, t2).truck_factor

C3_StrictlyMoreAtOne ==
    /\ Done
    /\ orphan_threshold_percentage = Rational(1, 4)
    /\ returned.truck_factor = 1
    /\ TruckFactorOf(relevant_files, blame, One).truck_factor = 3

\* C4: when at least one file has a primary owner and all files have the
\* same one, every threshold above zero returns truck factor 1 with the one
\* event of that owner, files_impacted = N.
C4_SingleOwnerCollapse ==
    (/\ Done
     /\ Cardinality(OwningAuthors) = 1
     /\ orphan_threshold_percentage.num > 0) =>
        /\ returned.truck_factor = 1
        /\ Len(returned.details) = 1
        /\ returned.details[1].email \in OwningAuthors
        /\ returned.details[1].files_impacted = Len(file_primary_owners)

C4_SingleOwnerOfTwoFiles ==
    /\ Done
    /\ Cardinality(OwningAuthors) = 1
    /\ Len(file_primary_owners) = 2
    /\ orphan_threshold_percentage = Rational(1, 4)
    /\ returned.truck_factor = 1

\* C5: for fixed blame lines per file and a fixed threshold, every order of
\* listing the files returns the same sequence of events.
C5_OrderIndependent ==
    Done =>
        \A order \in Orderings(relevant_files) :
            TruckFactorOf(order, blame, orphan_threshold_percentage).details
                = returned.details

\* C6: normalize_author_email applied to its own result gives that result
\* again, for every text.
C6_NormalizeIdempotent ==
    pc = "norm_done" => normalized_twice = normalized_once

\* no blame line of a relevant file resolves to a contributor (no relevant
\* files, no lines, or only lines that normalize to the unknown sentinel)
NoResolvableLine ==
    \A i \in DOMAIN relevant_files :
        \A j \in DOMAIN blame[relevant_files[i]] :
            NormalizedRaw[blame[relevant_files[i]][j]] = UnknownEmail

ZeroResult == ReturnValue(0, <<>>)

\* C7: with no relevant file, or no file that gets a primary owner, the call
\* returns truck factor 0 and no events; nothing is raised, and the loop with
\* its division by N is entered only with N > 0.
C7_DegenerateZero ==
    /\ NoResolvableLine =>
          /\ pc \in {"ctf_start", "done"}
          /\ raised = "none"
          /\ Done => returned = ZeroResult
    /\ (Done /\ file_primary_owners = <<>>) => returned = ZeroResult
    /\ pc = "ctf_loop" => num_total_files_with_owners > 0
    /\ raised # "ZeroDivisionError"

C7_OnlyUnknownLines ==
    /\ Done
    /\ Len(relevant_files) = 2
    /\ \A i \in DOMAIN relevant_files : blame[relevant_files[i]] # <<>>
    /\ NoResolvableLine
    /\ returned = ZeroResult

\* the threshold lies in (0, 1]
InUnitInterval(t) == ~RatLeq(t, Rational(0, 1)) /\ RatLeq(t, One)

\* C8: a threshold outside (0,1] ends main with exit(1) at the first step:
\* no temporary directory, no authorship table, no removal and no returned
\* (truck factor, events) exist for it.
C8_InvalidThresholdRejected ==
    ~InUnitInterval(orphan_threshold_percentage) =>
        /\ pc \in {"main_start", "exited"}
        /\ pc = "exited" => exit_code = 1
        /\ temp_dir = "none"
        /\ returned = NotReturned
        /\ file_authorship_map = <<>>
        /\ current_truck_factor = 0
        /\ truck_factor_developer_details = <<>>

C8_RejectedAboveOne ==
    /\ pc = "exited"
    /\ orphan_threshold_percentage = Rational(5, 4)
    /\ relevant_files # <<>>
    /\ exit_code = 1
    /\ returned = NotReturned

\* C9: across every step of the degradation loop orphaned_files_count does
\* not decrease and covered_files after the step is a subset of covered_files
\* before it.
C9_SimulationMonotone ==
    [][pc = "ctf_loop" =>
          /\ orphaned_files_count' >= orphaned_files_count
          /\ covered_files' \subseteq covered_files]_vars

C9_SecondRemovalAhead ==
    /\ pc = "ctf_loop"
    /\ orphaned_files_count = 2
    /\ covered_files # {}
    /\ BelowThreshold(orphaned_files_count, num_total_files_with_owners,
                      orphan_threshold_percentage)

\* C10: the loop, once entered, always reaches the return; the removals never
\* exceed min(N, number of owning authors); and every iteration that does not
\* leave the loop removes one author and orphans at least one file.
C10_LoopTerminates ==
    /\ []<>(pc # "ctf_loop")
    /\ [](current_truck_factor <= RemovalBound)
    /\ [][(pc = "ctf_loop" /\ pc' = "ctf_loop") =>
             /\ Len(active_author_owned_files') = Len(active_author_owned_files) - 1
             /\ orphaned_files_count' > orphaned_files_count]_vars

C10_ThreeRemovals ==
    /\ Done
    /\ returned.truck_factor = 3
    /\ RemovalBound = 3

\* the histogram of a file in file_authorship_map
HistogramOf(f_path) == DictGet(file_authorship_map, f_path, <<>>)

\* the blame lines of a file whose address resolves to a contributor
ResolvableLines(f_path) ==
    {j \in DOMAIN blame[f_path] : NormalizedRaw[blame[f_path][j]] # UnknownEmail}

RECURSIVE SumValues(_)
SumValues(d) == IF d = <<>> THEN 0 ELSE Head(d)[2] + SumValues(Tail(d))

EventAuthors(details) == {details[i].email : i \in DOMAIN details}

\* C11: the unknown sentinel is never a key of a file's histogram, never a
\* primary owner, never a key of the author coverage maps and never the author
\* of an event; the lines that normalize to it are not counted, so a
\* histogram's counts add up to the number of the file's other lines.
C11_SentinelExcluded ==
    /\ \A i \in DOMAIN file_authorship_map :
          /\ UnknownEmail \notin DictKeys(file_authorship_map[i][2])
          /\ SumValues(file_authorship_map[i][2])
                = Cardinality(ResolvableLines(file_authorship_map[i][1]))
    /\ UnknownEmail \notin OwningAuthors
    /\ UnknownEmail \notin DictKeys(author_owned_files_initial)
    /\ UnknownEmail \notin DictKeys(active_author_owned_files)
    /\ UnknownEmail \notin EventAuthors(truck_factor_developer_details)
    /\ UnknownEmail \notin EventAuthors(returned.details)

C11_UnknownLinesAhead ==
    /\ Done
    /\ relevant_files = <<"f1">>
    /\ blame["f1"] = <<RawUnknown, RawUnknown, RawA>>
    /\ HistogramOf("f1") = <<<<AuthorA, 1>>>>
    /\ returned = ReturnValue(1, <<Event(AuthorA, 1, 1)>>)

\* the code points of the characters of the contributors' identities
CodePoint(c) ==
    CASE c = "@" -> 64
      [] c = "a" -> 97
      [] c = "b" -> 98
      [] c = "c" -> 99
      [] c = "x" -> 120

\* s < t for two str: by code point, a proper prefix first
RECURSIVE StrLess(_, _)
StrLess(s, t) ==
    IF t = <<>> THEN FALSE
    ELSE IF s = <<>> THEN TRUE
    ELSE IF Head(s) = Head(t) THEN StrLess(Tail(s), Tail(t))
    ELSE CodePoint(Head(s)) < CodePoint(Head(t))

\* the lexicographically smallest identity of a non-empty set
LexSmallest(S) == CHOOSE a \in S : \A b \in S : a = b \/ StrLess(a, b)

\* the authors with the largest line count in a histogram
TopAuthors(hist) ==
    LET best == Max({hist[j][2] : j \in DOMAIN hist})
    IN  {hist[j][1] : j \in {k \in DOMAIN hist : hist[k][2] = best}}

\* C12: the primary owner of every file is the lexicographically smallest of
\* the authors with the largest line count in the file's histogram, whatever
\* the order of the file's blame lines.
C12_PrimaryOwnerSmallest ==
    \A i \in DOMAIN file_primary_owners :
        file_primary_owners[i][2]
            = LexSmallest(TopAuthors(HistogramOf(file_primary_owners[i][1])))

\* the active authors with the largest number of still-covered owned files
TopCoverage(active, covered) ==
    LET best == Max({CurrentCoverage(active[i], covered) : i \in DOMAIN active})
    IN  {active[i][1] : i \in {k \in DOMAIN active :
                                   CurrentCoverage(active[k], covered) = best}}

\* a step of the loop that appends an event
EmitsEvent ==
    /\ pc = "ctf_loop"
    /\ Len(truck_factor_developer_details') = Len(truck_factor_developer_details) + 1

\* C13: in every loop iteration that removes an author, the author removed is
\* the lexicographically smallest of the active authors with the largest
\* number of still-covered owned files.
C13_SelectionSmallest ==
    [][EmitsEvent =>
          truck_factor_developer_details'[Len(truck_factor_developer_details')].email
              = LexSmallest(TopCoverage(active_author_owned_files, covered_files))]_vars

\* a relevant file without a blame line that resolves to a contributor
Unattributed(f_path) == ResolvableLines(f_path) = {}

AttributedFiles == {f_path \in Range(relevant_files) : ~Unattributed(f_path)}

\* the list of files with one file deleted
WithoutFile(files, f_path) == SelectSeq(files, LAMBDA g : g # f_path)

\* the files some author of a coverage map owns
OwnedFiles(owned) == UNION {owned[i][2] : i \in DOMAIN owned}

\* C14: a relevant file with no blame lines, or only lines that normalize to
\* the unknown sentinel, raises nothing, has no histogram and no primary
\* owner, is in no coverage set and never in covered_files, is not counted in
\* N, and the call returns what it returns for the list without that file.
C14_UnattributedExcluded ==
    /\ raised = "none"
    /\ pc = "ctf_loop" => num_total_files_with_owners = Cardinality(AttributedFiles)
    /\ num_total_files_with_owners \in {0, Cardinality(AttributedFiles)}
    /\ \A f_path \in Range(relevant_files) :
          Unattributed(f_path) =>
              /\ f_path \notin DictKeys(file_authorship_map)
              /\ f_path \notin DictKeys(file_primary_owners)
              /\ f_path \notin OwnedFiles(author_owned_files_initial)
              /\ f_path \notin OwnedFiles(active_author_owned_files)
              /\ f_path \notin covered_files
              /\ Done => returned = TruckFactorOf(WithoutFile(relevant_files, f_path),
                                                  blame, orphan_threshold_percentage)

C14_SecondFileUnattributed ==
    /\ Done
    /\ relevant_files = <<"f1", "f2", "f3">>
    /\ blame["f1"] = <<RawB>>
    /\ blame["f2"] = <<RawUnknown>>
    /\ blame["f3"] = <<RawA>>
    /\ orphan_threshold_percentage = One
    /\ num_total_files_with_owners = 2
    /\ returned = ReturnValue(2, <<Event(AuthorB, 1, 1), Event(AuthorA, 1, 1)>>)

\* C15: for every text, empty and whitespace-only included, and for a value
\* that is not a str, normalize_author_email returns a non-empty str.
C15_NormalizeUsable ==
    pc # "norm_start" => normalized_once # <<>> /\ normalized_once # NoneValue

\* a text as rule 2 leaves it: lower-cased and trimmed
Trimmed(s) == Strip(Lower(s))

\* a non-empty str, which rules 2 to 6 are about
IsAddressText(s) == s # NoneValue /\ s # <<>>

\* s ends with suffix
EndsWith(s, suffix) ==
    Len(s) >= Len(suffix) /\ SubSeq(s, Len(s) - Len(suffix) + 1, Len(s)) = suffix

\* "@users.noreply."
NoreplyMark == SubSeq(NoreplyGithub, 1, 15)

\* the no-reply forms of the hosts: "@users.noreply.<host>"
NoreplyForms == {NoreplyGithub, NoreplyGitlab}

\* <digits>+<username>@users.noreply.<host>: an all-digit text, a plus sign, a
\* username without an at sign, and the no-reply form of a host at the end
HasNoreplyShape(e) ==
    LET parts == SplitFirst(e, "+") IN
    /\ Len(parts) = 2
    /\ IsDigit(parts[1])
    /\ \E form \in NoreplyForms :
          /\ EndsWith(parts[2], form)
          /\ FirstIndex(parts[2], "@") = Len(parts[2]) - Len(form) + 1

\* C16: a text of the shape <digits>+<username>@users.noreply.<host>, for
\* github.com and for another host, normalizes to the lower-cased, trimmed
\* <username>@users.noreply.<host>; a text with the no-reply mark that has not
\* this shape (a prefix that is not all digits, further domain text after the
\* host) normalizes to its lower-cased, trimmed form.
C16_NoreplyRewritten ==
    (/\ pc # "norm_start"
     /\ IsAddressText(email_str)
     /\ Contains(Trimmed(email_str), NoreplyMark)) =>
        normalized_once =
            IF HasNoreplyShape(Trimmed(email_str))
            THEN SplitFirst(Trimmed(email_str), "+")[2]
            ELSE Trimmed(email_str)

\* the text before the first at sign
LocalOf(e) == SubSeq(e, 1, FirstIndex(e, "@") - 1)

\* the text after the first at sign
DomainOf(e) == SubSeq(e, FirstIndex(e, "@") + 1, Len(e))

\* a str with an at sign whose domain, lower-cased and trimmed, is one of a set
IsAt(s, domains) ==
    /\ IsAddressText(s)
    /\ FirstIndex(Trimmed(s), "@") > 0
    /\ DomainOf(Trimmed(s)) \in domains

\* a text cut at its first plus sign
BeforePlus(local) ==
    IF FirstIndex(local, "+") = 0 THEN local
    ELSE SubSeq(local, 1, FirstIndex(local, "+") - 1)

Undotted(local) == SelectSeq(local, LAMBDA c : c # ".")

\* the raw text with its local part replaced
WithLocal(s, local) == local \o SubSeq(s, FirstIndex(s, "@"), Len(s))

\* C17: a text whose domain is gmail.com or googlemail.com normalizes to its
\* lower-cased local part cut at the first plus sign, with the dots then
\* removed, an at sign and the domain; the text without the dots of its local
\* part and the text without its plus suffix normalize to the same identity.
C17_GmailCanonical ==
    (pc # "norm_start" /\ IsAt(email_str, {GmailCom, GooglemailCom})) =>
        /\ normalized_once
              = Undotted(BeforePlus(LocalOf(Trimmed(email_str))))
                    \o <<"@">> \o DomainOf(Trimmed(email_str))
        /\ normalize_author_email(WithLocal(email_str, Undotted(LocalOf(email_str))))
              = normalized_once
        /\ normalize_author_email(WithLocal(email_str, BeforePlus(LocalOf(email_str))))
              = normalized_once

ProviderDomains == {GmailCom, GooglemailCom, OutlookCom, HotmailCom, LiveCom}

\* C18: a text without the no-reply mark whose domain is not one of
\* gmail.com, googlemail.com, outlook.com, hotmail.com, live.com, also when
\* the domain contains one of these names, normalizes to its lower-cased,
\* trimmed form.
C18_OthersPassThrough ==
    (/\ pc # "norm_start"
     /\ IsAddressText(email_str)
     /\ ~Contains(Trimmed(email_str), NoreplyMark)
     /\ ~IsAt(email_str, ProviderDomains)) =>
        normalized_once = Trimmed(email_str)

\* the event a step of the loop appends
EmittedEvent == truck_factor_developer_details'[Len(truck_factor_developer_details')]

\* C19: in every loop iteration that appends an event, the removed author is
\* an active author, the event's files_impacted is the number of the author's
\* owned files still in covered_files at that iteration, and no active author
\* has more.
C19_GreedyMaxImpact ==
    [][EmitsEvent =>
          /\ EmittedEvent.email \in DictKeys(active_author_owned_files)
          /\ EmittedEvent.files_impacted
                = Cardinality(DictGet(active_author_owned_files, EmittedEvent.email, {})
                                  \cap covered_files)
          /\ \A i \in DOMAIN active_author_owned_files :
                Cardinality(active_author_owned_files[i][2] \cap covered_files)
                    <= EmittedEvent.files_impacted]_vars

C19_LaterOwnerRemovedFirst ==
    /\ Done
    /\ relevant_files = <<"f1", "f2", "f3">>
    /\ author_owned_files_initial = <<<<AuthorA, {"f1"}>>, <<AuthorB, {"f2", "f3"}>>>>
    /\ returned = ReturnValue(2, <<Event(AuthorB, 2, 2), Event(AuthorA, 1, 1)>>)

\* C20: every step of the degradation loop leaves file_authorship_map,
\* file_primary_owners and author_owned_files_initial as they are, so after
\* the loop they are the tables built before it.
C20_LoopFrame ==
    /\ [][pc = "ctf_loop" =>
             /\ file_authorship_map' = file_authorship_map
             /\ file_primary_owners' = file_primary_owners
             /\ author_owned_files_initial' = author_owned_files_initial]_vars
    /\ [](pc \in {"ctf_loop", "done"} =>
             /\ file_authorship_map = BuildAuthorshipMap(<<>>, relevant_files, blame)
             /\ file_primary_owners # <<>> =>
                   /\ file_primary_owners
                         = AssignOwners([owners |-> <<>>, owned |-> <<>>],
                                        file_authorship_map).owners
                   /\ author_owned_files_initial
                         = AssignOwners([owners |-> <<>>, owned |-> <<>>],
                                        file_authorship_map).owned)

C20_TablesKeptAfterRemovals ==
    /\ Done
    /\ returned.truck_factor = 2
    /\ active_author_owned_files = <<>>
    /\ covered_files = {}
    /\ Len(author_owned_files_initial) = 2
    /\ Len(file_primary_owners) = 3

\* the blame lines of a set of files whose address normalizes to an author
LinesBy(files, author) ==
    UNION {{<<f_path, j>> : j \in {k \in DOMAIN blame[f_path] :
                                       NormalizedRaw[blame[f_path][k]] = author}} :
              f_path \in files}

\* C21: in every loop iteration that appends an event, loc_impacted is the
\* removed author's own line count, added over exactly the author's owned
\* files still in covered_files at that iteration: the number of blame lines
\* of those files that are the author's, and the sum of the author's counts
\* in those files' histograms.
C21_LocImpactedOwnLines ==
    [][EmitsEvent =>
          LET author == EmittedEvent.email
              impacted == DictGet(active_author_owned_files, author, {}) \cap covered_files
          IN  /\ impacted = covered_files \ covered_files'
              /\ EmittedEvent.loc_impacted = Cardinality(LinesBy(impacted, author))
              /\ EmittedEvent.loc_impacted = SumOver(impacted, file_authorship_map, author)]_vars

C21_OtherAuthorsLinesLeftOut ==
    /\ Done
    /\ relevant_files = <<"f1">>
    /\ blame["f1"] = <<RawA, RawB, RawA>>
    /\ returned = ReturnValue(1, <<Event(AuthorA, 1, 2)>>)

\* the tables of lines 206-233 are built
OwnersAssigned == pc \in {"ctf_loop", "done", "raised"}

\* the files whose primary owner is an author
FilesOwnedBy(author) ==
    {file_primary_owners[i][1] :
        i \in {k \in DOMAIN file_primary_owners : file_primary_owners[k][2] = author}}

\* the keys of a dict are distinct
KeysDistinct(d) == Cardinality(DictKeys(d)) = Len(d)

\* C22: once the owners are assigned, every file with a non-empty histogram
\* has exactly one primary owner and no other file has one; the owner's line
\* count in the file is at least every author's; and the author coverage map
\* is the inversion of the primary-owner map: each owning author once, with
\* exactly the files the author owns, so the sets are non-empty, pairwise
\* disjoint and together all files with a primary owner.
C22_OwnershipAssigned ==
    OwnersAssigned =>
        /\ KeysDistinct(file_primary_owners)
        /\ DictKeys(file_primary_owners)
              = {f_path \in Range(relevant_files) : HistogramOf(f_path) # <<>>}
        /\ DictKeys(file_primary_owners) = AttributedFiles
        /\ \A i \in DOMAIN file_primary_owners :
              LET hist == HistogramOf(file_primary_owners[i][1]) IN
              /\ file_primary_owners[i][2] \in DictKeys(hist)
              /\ \A j \in DOMAIN hist :
                    hist[j][2] <= DictGet(hist, file_primary_owners[i][2], 0)
        /\ KeysDistinct(author_owned_files_initial)
        /\ DictKeys(author_owned_files_initial) = OwningAuthors
        /\ \A i \in DOMAIN author_owned_files_initial :
              /\ author_owned_files_initial[i][2] # {}
              /\ author_owned_files_initial[i][2]
                    = FilesOwnedBy(author_owned_files_initial[i][1])
        /\ \A i, j \in DOMAIN author_owned_files_initial :
              i # j => author_owned_files_initial[i][2]
                           \cap author_owned_files_initial[j][2] = {}
        /\ OwnedFiles(author_owned_files_initial) = DictKeys(file_primary_owners)

C22_MinorityAuthorOwnsNothing ==
    /\ pc = "ctf_loop"
    /\ relevant_files = <<"f1", "f2">>
    /\ blame["f1"] = <<RawB, RawA, RawA>>
    /\ blame["f2"] = <<>>
    /\ file_primary_owners = <<<<"f1", AuthorA>>>>
    /\ author_owned_files_initial = <<<<AuthorA, {"f1"}>>>>

\* C23: at every test of the loop condition and at the return, a file with a
\* primary owner is in covered_files exactly when its owner is a key of
\* active_author_owned_files; so every active author's current coverage is
\* the number of files the author owned at the start.
C23_CoveredIffOwnerActive ==
    OwnersAssigned =>
        /\ covered_files \subseteq DictKeys(file_primary_owners)
        /\ \A i \in DOMAIN file_primary_owners :
              file_primary_owners[i][1] \in covered_files
                  <=> file_primary_owners[i][2] \in DictKeys(active_author_owned_files)
        /\ \A i \in DOMAIN active_author_owned_files :
              CurrentCoverage(active_author_owned_files[i], covered_files)
                  = Cardinality(DictGet(author_owned_files_initial,
                                        active_author_owned_files[i][1], {}))

C23_OtherOwnerStillCovers ==
    /\ pc = "ctf_loop"
    /\ current_truck_factor = 1
    /\ active_author_owned_files = <<<<AuthorA, {"f1"}>>>>
    /\ covered_files = {"f1"}
    /\ Len(file_primary_owners) = 3

\* orphaned / n >= threshold, as fractions
ThresholdReached(orphaned, n, t) == orphaned * t.den >= t.num * n

\* C24: with N > 0 and a threshold of (0,1], the call returns only with
\* orphaned_files_count / N >= threshold: the loop is never left through a
\* break (lines 236-237, 247-248, 254-255) while the fraction is below it.
C24_ReturnsAtThreshold ==
    (/\ Done
     /\ num_total_files_with_owners > 0
     /\ InUnitInterval(orphan_threshold_percentage)) =>
        /\ ThresholdReached(orphaned_files_count, num_total_files_with_owners,
                            orphan_threshold_percentage)
        /\ orphaned_files_count <= num_total_files_with_owners

C24_StoppedAtTwoOfThree ==
    /\ Done
    /\ num_total_files_with_owners = 3
    /\ orphan_threshold_percentage = Half
    /\ orphaned_files_count = 2
    /\ returned.truck_factor = 2
    /\ active_author_owned_files # <<>>

\* the sets of owning authors whose files are at least the threshold's share
\* of the files with a primary owner
SufficientAuthorSets ==
    {S \in SUBSET OwningAuthors :
        ThresholdReached(Cardinality(UNION {FilesOwnedBy(author) : author \in S}),
                         Len(file_primary_owners), orphan_threshold_percentage)}

\* C25: with N > 0 and a threshold of (0,1], the returned truck factor is the
\* least size of a set of authors whose primarily owned files are together
\* at least the threshold's share of the N files.
C25_GreedyIsMinimum ==
    (/\ Done
     /\ num_total_files_with_owners > 0
     /\ InUnitInterval(orphan_threshold_percentage)) =>
        /\ \E S \in SufficientAuthorSets : Cardinality(S) = returned.truck_factor
        /\ \A S \in SufficientAuthorSets : Cardinality(S) >= returned.truck_factor

C25_SmallerOwnerListedFirst ==
    /\ Done
    /\ author_owned_files_initial = <<<<AuthorA, {"f1"}>>, <<AuthorB, {"f2", "f3"}>>>>
    /\ orphan_threshold_percentage = Half
    /\ returned.truck_factor = 1
    /\ Cardinality(SufficientAuthorSets) = 2

\* s is a prefix of t
IsPrefix(s, t) == Len(s) <= Len(t) /\ SubSeq(t, 1, Len(s)) = s

\* C26: for the same files in the same order and the same blame lines, the
\* events returned for a threshold of (0,1] are a prefix of the events
\* returned for every threshold of (0,1] that is at least as large.
C26_EventsPrefix ==
    (Done /\ orphan_threshold_percentage \in ValidThresholds) =>
        \A t2 \in ValidThresholds :
            RatLeq(orphan_threshold_percentage, t2) =>
                IsPrefix(returned.details,
                         TruckFactorOf(relevant_files, blame, t2).details)

C26_ProperPrefix ==
    /\ Done
    /\ orphan_threshold_percentage = Half
    /\ relevant_files = <<"f1", "f2", "f3">>
    /\ returned.details = <<Event(AuthorC, 1, 1), Event(AuthorA, 1, 1)>>
    /\ TruckFactorOf(relevant_files, blame, One).details
          = <<Event(AuthorC, 1, 1), Event(AuthorA, 1, 1), Event(AuthorB, 1, 1)>>

\* C27: at every moment and in the returned value, each event has
\* files_impacted >= 1 and no event has a larger files_impacted than the
\* event before it.
C27_ImpactNonIncreasing ==
    \A details \in {truck_factor_developer_details, returned.details} :
        /\ \A i \in DOMAIN details : details[i].files_impacted >= 1
        /\ \A i, j \in DOMAIN details :
              i < j => details[i].files_impacted >= details[j].files_impacted

C27_TwoThenOne ==
    /\ Done
    /\ Len(returned.details) = 2
    /\ returned.details[1].files_impacted = 2
    /\ returned.details[2].files_impacted = 1
    /\ relevant_files[1] \in FilesOwnedBy(returned.details[2].email)

RECURSIVE SumImpacted(_)
SumImpacted(details) ==
    IF details = <<>> THEN 0
    ELSE Head(details).files_impacted + SumImpacted(Tail(details))

\* C28: at every test of the loop condition and at the return,
\* orphaned_files_count is N minus the size of covered_files and is the sum
\* of files_impacted over the events so far, and current_truck_factor is the
\* number of events so far.
C28_Conservation ==
    OwnersAssigned =>
        /\ orphaned_files_count
              = num_total_files_with_owners - Cardinality(covered_files)
        /\ orphaned_files_count = SumImpacted(truck_factor_developer_details)
        /\ current_truck_factor = Len(truck_factor_developer_details)
        /\ Done => /\ returned.truck_factor = current_truck_factor
                   /\ returned.details = truck_factor_developer_details

C28_TwoFilesInOneRemoval ==
    /\ pc = "ctf_loop"
    /\ num_total_files_with_owners = 3
    /\ orphaned_files_count = 2
    /\ current_truck_factor = 1
    /\ Cardinality(covered_files) = 1

\* C29: at every moment and in the returned value, no author is the author
\* of two events, and every event's author is the primary owner of a file.
C29_EventAuthorsDistinct ==
    \A details \in {truck_factor_developer_details, returned.details} :
        /\ \A i, j \in DOMAIN details : i # j => details[i].email # details[j].email
        /\ \A i \in DOMAIN details : FilesOwnedBy(details[i].email) # {}

C29_ThreeAuthorsOnce ==
    /\ Done
    /\ Cardinality(EventAuthors(returned.details)) = 3
    /\ OwningAuthors = {AuthorA, AuthorB, AuthorC}

\* C30: a temporary directory exists only after main accepted the threshold;
\* with --keep_repo it is never removed; without it main, once the directory
\* was created, is left only through the cleanup, at normal completion, at
\* the early return for no relevant files and at an exit(1) of a failed git
\* command alike, and the directory is removed then.
C30_CleanupOnEveryExit ==
    /\ [](~InUnitInterval(orphan_threshold_percentage) => temp_dir = "none")
    /\ [](args.keep_repo => temp_dir # "removed")
    /\ []((pc = "exited" /\ InUnitInterval(orphan_threshold_percentage)) =>
             temp_dir = IF args.keep_repo THEN "exists" ELSE "removed")
    /\ [][(temp_dir = "exists" /\ pc' = "exited") => pc = "main_finally"]_vars
    /\ [][temp_dir' = "removed" => (pc = "main_finally" /\ ~args.keep_repo)]_vars

C30_RemovedAfterGitFailure ==
    /\ pc = "exited"
    /\ raised = "SystemExit"
    /\ exit_code = 1
    /\ ~args.keep_repo
    /\ temp_dir = "removed"
    /\ file_authorship_map = <<>>
    /\ relevant_files # <<>>

====
